---- MODULE Spec2Model ----
(***************************************************************************)
(* Edge-server placement (src/src/algorithms.py): the ServerPlacement base *)
(* class with its distance and objective functions, and the four placement *)
(* strategies MIP (preprocessing only), KMeans, TopK and Random.           *)
(*                                                                         *)
(* Units.  Distances are integers in units of 10 km, so the sentinel 1e10  *)
(* of the assignment loops is 10^9.  Coordinates are integers in units of  *)
(* 1/12 degree, so the mean of up to four grid points is exact.  Workloads *)
(* are naturals.  A Python list indexed from 0 that is only iterated is a  *)
(* sequence; the distance table, which is indexed by identifier, is a      *)
(* function over 0..N-1.                                                   *)
(***************************************************************************)
EXTENDS Integers, Sequences, FiniteSets, TLC

\* Largest number of base stations of an enumerated input.
MaxN == 2
\* Largest workload of a base station of an enumerated input.
MaxWorkload == 1

\* min_distance = 1e10 (km), in units of 10 km.
MinDistanceInit == 1000000000

\* Python's None where an integer may stand (EdgeServer.base_station_id).
None == -1

VARIABLES
    strategy,       \* the class of the instance
    base_stations,  \* self.base_stations: sequence of BaseStation records
    distances,      \* self.distances: distances[i][j], i, j base-station ids
    edge_servers,   \* self.edge_servers: NoServers (None) or Servers(list)
    last,           \* the most recent call on the instance and how it ended
    last_place,     \* the most recent place_server call, how it ended, and
                    \* whether a Placement was stored when it began (prior)
    assign          \* the list `assign` built by the latest preprocess_problem

vars == <<strategy, base_stations, distances, edge_servers, last, last_place, assign>>

-----------------------------------------------------------------------------
(* Helpers                                                                 *)

Min(a, b) == IF a < b THEN a ELSE b
Max(a, b) == IF a > b THEN a ELSE b
Abs(a) == IF a < 0 THEN 0 - a ELSE a

RECURSIVE ISqrtBetween(_, _, _)
\* Largest r in lo..hi with r*r <= n, given lo*lo <= n < (hi+1)*(hi+1).
ISqrtBetween(n, lo, hi) ==
    IF lo >= hi THEN lo
    ELSE LET mid == (lo + hi + 1) \div 2
         IN IF mid * mid <= n THEN ISqrtBetween(n, mid, hi)
            ELSE ISqrtBetween(n, lo, mid - 1)

ISqrt(n) == ISqrtBetween(n, 0, Min(n, 46340))

RECURSIVE SumWorkload(_)
\* sum of the workload fields of a sequence of records
SumWorkload(s) == IF s = <<>> THEN 0 ELSE Head(s).workload + SumWorkload(Tail(s))

\* Python's s[:n] for any integer n.
PySlice(s, n) ==
    IF n >= 0 THEN SubSeq(s, 1, Min(n, Len(s)))
    ELSE SubSeq(s, 1, Max(Len(s) + n, 0))

\* Python's truthiness of an Optional[int]: None and 0 are both false.
Truthy(x) == x # None /\ x # 0

\* int(a / b) for b # 0: float division truncated toward zero.
TruncDiv(a, b) ==
    IF (a >= 0) = (b > 0) THEN Abs(a) \div Abs(b) ELSE 0 - (Abs(a) \div Abs(b))

\* self.edge_servers is None / is the list l.
NoServers == [isNone |-> TRUE, list |-> <<>>]
Servers(l) == [isNone |-> FALSE, list |-> l]

-----------------------------------------------------------------------------
(* The collaborators' data: BaseStation, EdgeServer, DataUtils             *)

\* A base station: identifier, coordinates, workload.
BaseStation(id, latitude, longitude, workload) ==
    [id |-> id, latitude |-> latitude, longitude |-> longitude, workload |-> workload]

\* EdgeServer(id, latitude, longitude, base_station_id=None): a new edge
\* server has no assigned base station and workload 0.
EdgeServer(id, latitude, longitude, base_station_id) ==
    [id |-> id, latitude |-> latitude, longitude |-> longitude,
     base_station_id |-> base_station_id,
     assigned_base_stations |-> <<>>, workload |-> 0]

\* DataUtils.calc_distance: the planar approximation at 110 km per degree,
\* coordinates in 1/12 degree, result in units of 10 km (rounded down).
calc_distance(lat_a, lng_a, lat_b, lng_b) ==
    ISqrt(11 * 11 * ((lat_a - lat_b) * (lat_a - lat_b) + (lng_a - lng_b) * (lng_a - lng_b)))
        \div 12

-----------------------------------------------------------------------------
(* ServerPlacement                                                         *)

\* ServerPlacement._distance_edge_server_base_station
distance_edge_server_base_station(self_distances, edge_server, base_station) ==
    IF Truthy(edge_server.base_station_id)
    THEN self_distances[edge_server.base_station_id][base_station.id]
    ELSE calc_distance(edge_server.latitude, edge_server.longitude,
                       base_station.latitude, base_station.longitude)

RECURSIVE latency_inner(_, _, _, _)
\* the inner loop of objective_latency over es.assigned_base_stations, from
\* position i: the sum of the delays
latency_inner(self_distances, es, i, total_delay) ==
    IF i > Len(es.assigned_base_stations) THEN total_delay
    ELSE latency_inner(self_distances, es, i + 1,
            total_delay
            + distance_edge_server_base_station(self_distances, es, es.assigned_base_stations[i]))

RECURSIVE latency_outer(_, _, _, _, _)
\* the outer loop of objective_latency: <<total_delay, base_station_num>>
latency_outer(self_distances, servers, e, total_delay, base_station_num) ==
    IF e > Len(servers) THEN <<total_delay, base_station_num>>
    ELSE latency_outer(self_distances, servers, e + 1,
            latency_inner(self_distances, servers[e], 1, total_delay),
            base_station_num + Len(servers[e].assigned_base_stations))

\* ServerPlacement.objective_latency: the outcome and, when a value is
\* returned, total_delay / base_station_num in thousandths (rounded down).
objective_latency(self) ==
    IF self.edge_servers.isNone \/ self.edge_servers.list = <<>>
    THEN [outcome |-> "AssertionError", value |-> 0]
    ELSE LET t == latency_outer(self.distances, self.edge_servers.list, 1, 0, 0)
         IN IF t[2] = 0 THEN [outcome |-> "ZeroDivisionError", value |-> 0]
            ELSE [outcome |-> "ok", value |-> (1000 * t[1]) \div t[2]]

RECURSIVE SumSquares(_)
SumSquares(s) == IF s = <<>> THEN 0 ELSE Head(s).workload * Head(s).workload + SumSquares(Tail(s))

\* np.std of the workloads: the population standard deviation
\* sqrt(mean(w^2) - mean(w)^2), in thousandths (rounded down).
std(servers) ==
    LET n == Len(servers)
        s == SumWorkload(servers)
    IN ISqrt((1000000 * (n * SumSquares(servers) - s * s)) \div (n * n))

\* objective_workload with the assert left out: np.std of no workloads
objective_workload_unchecked(self) ==
    IF self.edge_servers.isNone \/ self.edge_servers.list = <<>>
    THEN [outcome |-> "ok", value |-> 0]
    ELSE [outcome |-> "ok", value |-> std(self.edge_servers.list)]

\* ServerPlacement.objective_workload
objective_workload(self) ==
    IF self.edge_servers.isNone \/ self.edge_servers.list = <<>>
    THEN [outcome |-> "AssertionError", value |-> 0]
    ELSE [outcome |-> "ok", value |-> std(self.edge_servers.list)]

-----------------------------------------------------------------------------
(* The assignment loop shared by TopK and Random                           *)

RECURSIVE closest_loop(_, _, _, _, _, _)
\* the inner loop over edge_servers from position j: the position of
\* closest_edge_server, 0 while it is still None
closest_loop(self_distances, servers, base_station, j, min_distance, closest) ==
    IF j > Len(servers) THEN closest
    ELSE LET tmp == distance_edge_server_base_station(self_distances, servers[j], base_station)
         IN IF tmp < min_distance
            THEN closest_loop(self_distances, servers, base_station, j + 1, tmp, j)
            ELSE closest_loop(self_distances, servers, base_station, j + 1, min_distance, closest)

closest_edge_server(self_distances, servers, base_station) ==
    closest_loop(self_distances, servers, base_station, 1, MinDistanceInit, 0)

\* assign_to with "workload = base_station.workload" for "+="
assign_to_overwriting(servers, c, base_station) ==
    [servers EXCEPT ![c].assigned_base_stations = Append(@, base_station),
                    ![c].workload = base_station.workload]

\* closest_edge_server.assigned_base_stations.append(base_station)
\* closest_edge_server.workload += base_station.workload
assign_to(servers, c, base_station) ==
    [servers EXCEPT ![c].assigned_base_stations = Append(@, base_station),
                    ![c].workload = @ + base_station.workload]

RECURSIVE assign_loop(_, _, _, _)
\* the outer loop over the base stations from position i; appending to
\* None raises AttributeError and ends the call
assign_loop(self_distances, servers, stations, i) ==
    IF i > Len(stations) THEN [outcome |-> "ok", list |-> servers]
    ELSE LET c == closest_edge_server(self_distances, servers, stations[i])
         IN IF c = 0 THEN [outcome |-> "AttributeError", list |-> servers]
            ELSE assign_loop(self_distances, assign_to(servers, c, stations[i]), stations, i + 1)

-----------------------------------------------------------------------------
(* TopKServerPlacement                                                     *)

RECURSIVE insert_desc_unstable(_, _)
\* insert_desc with x put before the elements of equal workload
insert_desc_unstable(s, x) ==
    IF s = <<>> THEN <<x>>
    ELSE IF Head(s).workload > x.workload
         THEN <<Head(s)>> \o insert_desc_unstable(Tail(s), x)
         ELSE <<x>> \o s

RECURSIVE insert_desc(_, _)
\* x put into the descending sequence s behind every element whose workload
\* is not smaller: equal workloads keep their input order
insert_desc(s, x) ==
    IF s = <<>> THEN <<x>>
    ELSE IF Head(s).workload >= x.workload
         THEN <<Head(s)>> \o insert_desc(Tail(s), x)
         ELSE <<x>> \o s

RECURSIVE sorted_from(_, _, _)
sorted_from(stations, i, acc) ==
    IF i > Len(stations) THEN acc
    ELSE sorted_from(stations, i + 1, insert_desc(acc, stations[i]))

\* sorted(self.base_stations, key=lambda x: x.workload, reverse=True): a
\* stable sort, also with reverse=True
sorted_by_workload(stations) == sorted_from(stations, 1, <<>>)

\* [EdgeServer(i, item.latitude, item.longitude, item.id) for i, item in enumerate(items)]
seeded_edge_servers(items) ==
    [i \in 1..Len(items) |->
        EdgeServer(i - 1, items[i].latitude, items[i].longitude, items[i].id)]

\* TopKPlaceServer with the new edge servers appended to the list the
\* instance already holds
TopKPlaceServer_extending(self, k) ==
    LET sorted_base_stations == sorted_by_workload(self.base_stations)
        servers == self.edge_servers.list
                   \o seeded_edge_servers(PySlice(sorted_base_stations, k))
        r == assign_loop(self.distances, servers, sorted_base_stations, 1)
    IN IF r.outcome = "ok"
       THEN [outcome |-> "ok", edge_servers |-> Servers(r.list)]
       ELSE [outcome |-> r.outcome, edge_servers |-> self.edge_servers]

\* TopKServerPlacement.place_server: the outcome and self.edge_servers after
\* the call; self.edge_servers is assigned in the last statement only
TopKPlaceServer(self, k) ==
    LET sorted_base_stations == sorted_by_workload(self.base_stations)
        servers == seeded_edge_servers(PySlice(sorted_base_stations, k))
        r == assign_loop(self.distances, servers, sorted_base_stations, 1)
    IN IF r.outcome = "ok"
       THEN [outcome |-> "ok", edge_servers |-> Servers(r.list)]
       ELSE [outcome |-> r.outcome, edge_servers |-> self.edge_servers]

-----------------------------------------------------------------------------
(* RandomServerPlacement                                                   *)

\* random.sample(population, k): ValueError when k is negative or larger
\* than the population, else any k distinct elements in any order; here
\* the positions of the sampled elements
Samples(n, k) ==
    {s \in [1..k -> 1..n] : \A i, j \in 1..k : i # j => s[i] # s[j]}

\* RandomServerPlacement.place_server with the sample drawn
RandomPlaceServer(self, k, sample) ==
    IF k < 0 \/ k > Len(self.base_stations)
    THEN [outcome |-> "ValueError", edge_servers |-> self.edge_servers]
    ELSE LET random_base_stations == [i \in 1..k |-> self.base_stations[sample[i]]]
             servers == seeded_edge_servers(random_base_stations)
             r == assign_loop(self.distances, servers, self.base_stations, 1)
         IN IF r.outcome = "ok"
            THEN [outcome |-> "ok", edge_servers |-> Servers(r.list)]
            ELSE [outcome |-> r.outcome, edge_servers |-> self.edge_servers]

-----------------------------------------------------------------------------
(* KMeansServerPlacement                                                   *)

\* The positions of the base stations that carry label c.
Members(label, c) == {b \in DOMAIN label : label[b] = c}

RECURSIVE SumOver(_, _, _)
SumOver(S, stations, field) ==
    IF S = {} THEN 0
    ELSE LET b == CHOOSE x \in S : TRUE
         IN stations[b][field] + SumOver(S \ {b}, stations, field)

\* vq.kmeans2(data, k, iter=100, minit='points') as far as place_server
\* depends on it: every observation gets a label in 0..k-1 and the centroid
\* of a cluster is the mean of its observations.  A cluster left empty keeps
\* a data point it was initialised with, here the one at its own position;
\* which one is never seen, since place_server drops the empty clusters.
kmeans2_centroid(stations, label, c) ==
    LET m == Members(label, c)
    IN IF m = {}
       THEN <<stations[c + 1].latitude, stations[c + 1].longitude>>
       ELSE <<SumOver(m, stations, "latitude") \div Cardinality(m),
              SumOver(m, stations, "longitude") \div Cardinality(m)>>

RECURSIVE label_loop(_, _, _, _)
\* for bs, es in enumerate(label): append and accumulate
label_loop(servers, stations, label, bs) ==
    IF bs > Len(stations) THEN servers
    ELSE label_loop(assign_to(servers, label[bs] + 1, stations[bs]), stations, label, bs + 1)

KeepsWorkload(x) == x.workload # 0

\* filter_workload with the filter left out
filter_nothing(servers) == servers

\* list(filter(lambda x: x.workload != 0, edge_servers))
filter_workload(servers) == SelectSeq(servers, KeepsWorkload)

\* KMeansServerPlacement.place_server with the clustering's random choices
\* drawn; kmeans2 raises ValueError for k < 1 and for k larger than the
\* number of observations
KMeansPlaceServer(self, k, label) ==
    IF k < 1 \/ k > Len(self.base_stations)
    THEN [outcome |-> "ValueError", edge_servers |-> self.edge_servers]
    ELSE LET servers ==
                 [i \in 1..k |->
                    LET row == kmeans2_centroid(self.base_stations, label, i - 1)
                    IN EdgeServer(i - 1, row[1], row[2], None)]
         IN [outcome |-> "ok",
             edge_servers |->
                Servers(filter_workload(label_loop(servers, self.base_stations, label, 1)))]

-----------------------------------------------------------------------------
(* MIPServerPlacement.preprocess_problem                                   *)

\* The orders of the column indices 0..n-1.
Permutations0(n) ==
    {p \in [1..n -> 0..(n - 1)] : \A i, j \in 1..n : i # j => p[i] # p[j]}

\* row.argpartition(kth), kth already non-negative: any order of the
\* indices that has, at position kth, an index whose value is not smaller
\* than any before it and not larger than any behind it
ArgPartitions(row, n, kth) ==
    {p \in Permutations0(n) :
        /\ \A j \in 1..kth : row[p[j]] <= row[p[kth + 1]]
        /\ \A j \in (kth + 2)..n : row[p[j]] >= row[p[kth + 1]]}

\* cap = int(len(self.base_stations) / k)
cap_of(n, k) == TruncDiv(n, k)

\* The values row.argpartition(cap)[:cap] can take; numpy counts a negative
\* kth from the end.
NearestIndices(row, n, cap) ==
    {PySlice(p, cap) : p \in ArgPartitions(row, n, IF cap < 0 THEN cap + n ELSE cap)}

RECURSIVE assign_rows(_, _, _, _)
\* the loop over the rows of d from row i: the values the list assign can take
assign_rows(d, n, cap, i) ==
    IF i > n THEN {<<>>}
    ELSE {<<indices>> \o rest :
            indices \in NearestIndices(d[i - 1], n, cap),
            rest \in assign_rows(d, n, cap, i + 1)}

\* MIPServerPlacement.preprocess_problem(k): the ways the call can end.
\* k = 0 raises ZeroDivisionError; numpy raises ValueError when kth is out
\* of bounds (-n <= kth < n).
preprocess_problem(self, k) ==
    LET n == Len(self.base_stations)
    IN IF k = 0 THEN {[outcome |-> "ZeroDivisionError", assign |-> <<>>]}
       ELSE IF cap_of(n, k) >= n \/ cap_of(n, k) < 0 - n
            THEN {[outcome |-> "ValueError", assign |-> <<>>]}
            ELSE {[outcome |-> "ok", assign |-> a] :
                    a \in assign_rows(self.distances, n, cap_of(n, k), 1)}

-----------------------------------------------------------------------------
(* Inputs                                                                  *)

\* Base station id sits on the unit grid: 0 -> (0,0), 1 -> (0,1),
\* 2 -> (1,0), 3 -> (1,1), in degrees; coordinates in 1/12 degree.
GridLatitude(id) == 12 * (id \div 2)
GridLongitude(id) == 12 * (id % 2)

\* n base stations with ids 0..n-1 in list order and the workloads w.
GridStations(n, w) ==
    [i \in 1..n |-> BaseStation(i - 1, GridLatitude(i - 1), GridLongitude(i - 1), w[i])]

\* The off-diagonal entries of an enumerated distance table: 0 (stations the
\* table holds to be at one place) and a distance as large as the sentinel.
DistanceValues == {0, MinDistanceInit}

\* The symmetric n x n tables with a zero diagonal.
DistanceTables(n) ==
    {d \in [0..(n - 1) -> [0..(n - 1) -> DistanceValues]] :
        \A i, j \in 0..(n - 1) : d[i][j] = d[j][i] /\ d[i][i] = 0}

\* The table computed from the coordinates, as the data loader builds it.
GeometricTable(stations) ==
    [i \in 0..(Len(stations) - 1) |-> [j \in 0..(Len(stations) - 1) |->
        calc_distance(stations[i + 1].latitude, stations[i + 1].longitude,
                      stations[j + 1].latitude, stations[j + 1].longitude)]]

\* Four base stations at (0,0),(0,1),(1,0),(1,1) with workloads 1,1,1,1.
ScenarioStations == GridStations(4, <<1, 1, 1, 1>>)
ScenarioInput ==
    [base_stations |-> ScenarioStations, distances |-> GeometricTable(ScenarioStations)]

EnumeratedInputs ==
    UNION {{[base_stations |-> GridStations(n, w), distances |-> d] :
                w \in [1..n -> 0..MaxWorkload],
                d \in DistanceTables(n) \cup {GeometricTable(GridStations(n, [i \in 1..n |-> 0]))}} :
           n \in 1..MaxN}

Inputs == EnumeratedInputs \cup {ScenarioInput}

\* The strategies that place servers, and the one that only preprocesses.
PlacingStrategies == {"KMeans", "TopK", "Random"}

\* The values of edge_server_num tried: every valid one, 0, one negative
\* and one too large.
ServerNums == (0 - 1)..(Len(base_stations) + 1)

-----------------------------------------------------------------------------
(* The instance and its operations                                         *)

Self == [base_stations |-> base_stations, distances |-> distances,
         edge_servers |-> edge_servers]

\* ServerPlacement.__init__, for an instance of one of the classes S.
\* KMeansServerPlacement never reads self.distances (its edge servers have
\* no base_station_id), so its instances get the geometric table only.
InitOf(S) ==
    /\ strategy \in S
    /\ \E inp \in Inputs :
        /\ base_stations = inp.base_stations
        /\ distances = inp.distances
        /\ strategy = "KMeans" => inp.distances = GeometricTable(inp.base_stations)
    /\ edge_servers = NoServers
    /\ last = [op |-> "__init__", k |-> 0, outcome |-> "ok", value |-> 0]
    /\ last_place = [called |-> FALSE, k |-> 0, outcome |-> "ok", prior |-> FALSE]
    /\ assign = <<>>

Placed(k, r) ==
    /\ edge_servers' = r.edge_servers
    /\ last' = [op |-> "place_server", k |-> k, outcome |-> r.outcome, value |-> 0]
    /\ last_place' = [called |-> TRUE, k |-> k, outcome |-> r.outcome,
                      prior |-> ~edge_servers.isNone]
    /\ UNCHANGED <<strategy, base_stations, distances, assign>>

TopKPlace ==
    /\ strategy = "TopK"
    /\ \E k \in ServerNums : Placed(k, TopKPlaceServer(Self, k))

RandomPlace ==
    /\ strategy = "Random"
    /\ \E k \in ServerNums :
        \E sample \in Samples(Len(base_stations), Max(0, Min(k, Len(base_stations)))) :
            Placed(k, RandomPlaceServer(Self, k, sample))

KMeansPlace ==
    /\ strategy = "KMeans"
    /\ \E k \in ServerNums :
        LET kk == Max(0, Min(k, Len(base_stations)))
        IN \E label \in [1..Len(base_stations) -> 0..Max(0, kk - 1)] :
                Placed(k, KMeansPlaceServer(Self, k, label))

\* MIPServerPlacement.preprocess_problem(k)
MIPPreprocess ==
    /\ strategy = "MIP"
    /\ \E k \in ServerNums :
        \E r \in preprocess_problem(Self, k) :
            /\ last' = [op |-> "preprocess_problem", k |-> k, outcome |-> r.outcome, value |-> 0]
            /\ assign' = r.assign
    /\ UNCHANGED <<strategy, base_stations, distances, edge_servers, last_place>>

ObjectiveLatency ==
    /\ last' = [op |-> "objective_latency", k |-> 0,
                outcome |-> objective_latency(Self).outcome,
                value |-> objective_latency(Self).value]
    /\ UNCHANGED <<strategy, base_stations, distances, edge_servers, last_place, assign>>

ObjectiveWorkload ==
    /\ last' = [op |-> "objective_workload", k |-> 0,
                outcome |-> objective_workload(Self).outcome,
                value |-> objective_workload(Self).value]
    /\ UNCHANGED <<strategy, base_stations, distances, edge_servers, last_place, assign>>

Init == InitOf(PlacingStrategies)

Next ==
    \/ TopKPlace
    \/ RandomPlace
    \/ KMeansPlace
    \/ ObjectiveLatency
    \/ ObjectiveWorkload

\* An instance of KMeansServerPlacement, TopKServerPlacement or
\* RandomServerPlacement under any sequence of calls.
Spec == Init /\ [][Next]_vars

InitMIP == InitOf({"MIP"})

NextMIP ==
    \/ MIPPreprocess
    \/ ObjectiveLatency
    \/ ObjectiveWorkload

\* An instance of MIPServerPlacement under any sequence of calls of
\* preprocess_problem and the objectives.
SpecMIP == InitMIP /\ [][NextMIP]_vars

-----------------------------------------------------------------------------
(* Properties                                                              *)

N == Len(base_stations)

\* The latest place_server call returned normally / had a valid count.
Returned == last_place.called /\ last_place.outcome = "ok"
ValidK == last_place.called /\ 1 <= last_place.k /\ last_place.k <= N

\* The places <<e, i>> of the stored Placement where base station b is assigned.
Assignments(b) ==
    {p \in UNION {{<<e, i>> : i \in 1..Len(edge_servers.list[e].assigned_base_stations)} :
                    e \in 1..Len(edge_servers.list)} :
        edge_servers.list[p[1]].assigned_base_stations[p[2]].id = b.id}

\* The code's distance from the e-th stored edge server to base station b.
Dist(e, b) == distance_edge_server_base_station(distances, edge_servers.list[e], b)

\* C1: after place_server(k) of KMeans, TopK or Random returns, 1 <= k <= N,
\* every base station is in the assigned_base_stations of exactly one edge
\* server of edge_servers.
C1_CoverageExclusivity ==
    (Returned /\ ValidK) =>
        \A b \in 1..N : Cardinality(Assignments(base_stations[b])) = 1

\* C2 as claimed: after place_server(k) of any strategy returns, 1 <= k <= N,
\* no edge server of edge_servers has workload 0.
C2_NoZeroWorkloadAnyStrategy ==
    (Returned /\ ValidK) =>
        \A e \in 1..Len(edge_servers.list) : edge_servers.list[e].workload # 0

\* C2, amended: after place_server(k) of KMeans returns, no edge server of
\* edge_servers has workload 0; TopK and Random filter nothing and keep all
\* their k edge servers, whatever their workload.
C2_NoZeroWorkloadKMeans ==
    (Returned /\ ValidK) =>
        /\ strategy = "KMeans" =>
            \A e \in 1..Len(edge_servers.list) : edge_servers.list[e].workload # 0
        /\ strategy \in {"TopK", "Random"} => Len(edge_servers.list) = last_place.k

\* C2's case: k-means returned and dropped an edge server of workload 0.
C2_Witness ==
    /\ strategy = "KMeans" /\ Returned /\ ValidK
    /\ edge_servers.list # <<>>
    /\ Len(edge_servers.list) < last_place.k

\* C3: for TopK and Random, place_server(k) with k <= 0 or k > N ends in an
\* error and never succeeds (so never with fewer than k edge servers).
C3_CountValidation ==
    (/\ strategy \in {"TopK", "Random"}
     /\ last_place.called
     /\ (last_place.k <= 0 \/ last_place.k > N))
        => last_place.outcome # "ok"

\* C4: after place_server(k) returns, 1 <= k <= N, the workloads of the edge
\* servers add up to the workloads of all base stations, and each edge
\* server's workload is the sum over its own assigned base stations.
C4_WorkloadConservation ==
    (Returned /\ ValidK) =>
        /\ SumWorkload(edge_servers.list) = SumWorkload(base_stations)
        /\ \A e \in 1..Len(edge_servers.list) :
            edge_servers.list[e].workload
                = SumWorkload(edge_servers.list[e].assigned_base_stations)

\* C4's case: a Placement of several edge servers, one of them serving
\* several base stations that carry workload.
C4_Witness ==
    /\ Returned /\ ValidK
    /\ Len(edge_servers.list) >= 2
    /\ \E e \in 1..Len(edge_servers.list) :
        /\ Len(edge_servers.list[e].assigned_base_stations) >= 2
        /\ edge_servers.list[e].workload >= 2

ObjectiveOps == {"objective_latency", "objective_workload"}

\* C5: an objective called while edge_servers is unset fails with the
\* assertion error and leaves edge_servers unset; an objective returns a
\* value only when a Placement is stored.
C5_EvaluationOrdering ==
    [][last'.op \in ObjectiveOps =>
        /\ edge_servers.isNone =>
            (last'.outcome = "AssertionError" /\ edge_servers'.isNone)
        /\ last'.outcome = "ok" => ~edge_servers.isNone]_vars

\* C5's case: objective_workload was called before any place_server.
C5_Witness ==
    /\ ~last_place.called /\ edge_servers.isNone
    /\ last.op = "objective_workload" /\ last.outcome = "AssertionError"

\* A new instance with the same inputs.
FreshSelf == [base_stations |-> base_stations, distances |-> distances,
              edge_servers |-> NoServers]

\* C6 as claimed: after any sequence of place_server calls on a TopK
\* instance, edge_servers is what place_server(k) with the last k leaves on
\* a new instance.
C6_RerunAnySequence ==
    (strategy = "TopK" /\ last_place.called) =>
        edge_servers = TopKPlaceServer(FreshSelf, last_place.k).edge_servers

\* C6, amended: after any sequence of place_server calls on a TopK instance
\* whose last call returned normally, edge_servers is what place_server(k)
\* with the last k leaves on a new instance.
C6_RerunLastReturned ==
    (strategy = "TopK" /\ Returned) =>
        edge_servers = TopKPlaceServer(FreshSelf, last_place.k).edge_servers

\* C6's case: a TopK call with k = 1 that returned on an instance of two or
\* more base stations that already held a Placement.
C6_Witness ==
    /\ strategy = "TopK" /\ Returned /\ last_place.prior
    /\ last_place.k = 1 /\ N >= 2

\* The number of base stations that come before the one at position b when
\* sorted by workload descending, ties in input order.
Rank(b) ==
    Cardinality({c \in 1..N :
        \/ base_stations[c].workload > base_stations[b].workload
        \/ (base_stations[c].workload = base_stations[b].workload /\ c < b)})

\* C7: TopK place_server(k), 1 <= k <= N, creates exactly k edge servers,
\* the i-th at the i-th base station by workload descending with ties in
\* input order; in the scenario (four stations on the unit square, workloads
\* 1, k = 2) the seeds are stations 0 and 1, each edge server gets 2 base
\* stations and workload 2, and the workload dispersion is 0.
C7_TopKSeeding ==
    (strategy = "TopK" /\ Returned /\ ValidK) =>
        /\ Len(edge_servers.list) = last_place.k
        /\ \A i \in 1..Len(edge_servers.list) : \E b \in 1..N :
            /\ Rank(b) = i - 1
            /\ edge_servers.list[i].id = i - 1
            /\ edge_servers.list[i].base_station_id = base_stations[b].id
            /\ edge_servers.list[i].latitude = base_stations[b].latitude
            /\ edge_servers.list[i].longitude = base_stations[b].longitude
        /\ (base_stations = ScenarioInput.base_stations
            /\ distances = ScenarioInput.distances /\ last_place.k = 2) =>
            /\ edge_servers.list[1].base_station_id = 0
            /\ edge_servers.list[2].base_station_id = 1
            /\ \A e \in 1..2 :
                /\ Len(edge_servers.list[e].assigned_base_stations) = 2
                /\ edge_servers.list[e].workload = 2
            /\ objective_workload(Self) = [outcome |-> "ok", value |-> 0]

\* C7's case: the scenario placed with k = 2.
C7_Witness ==
    /\ strategy = "TopK" /\ Returned /\ last_place.k = 2
    /\ base_stations = ScenarioInput.base_stations
    /\ distances = ScenarioInput.distances

\* C8: in the loop of TopK and Random, 1 <= k <= N, every base station is
\* assigned, to an edge server at minimal distance, the first of those in
\* candidate order, however large the distances.
C8_NearestFirstWins ==
    (strategy \in {"TopK", "Random"} /\ ValidK) =>
        /\ last_place.outcome = "ok"
        /\ \A b \in 1..N : \A p \in Assignments(base_stations[b]) :
            \A e \in 1..Len(edge_servers.list) :
                /\ Dist(p[1], base_stations[b]) <= Dist(e, base_stations[b])
                /\ e < p[1] => Dist(p[1], base_stations[b]) < Dist(e, base_stations[b])

\* C9: for an edge server co-located with a base station, whatever its
\* id, the distance to a base station is the table entry
\* distances[co-located id][base station id].
C9_TableLookup ==
    ~edge_servers.isNone =>
        \A e \in 1..Len(edge_servers.list) : \A b \in 1..N :
            edge_servers.list[e].base_station_id # None =>
                Dist(e, base_stations[b])
                    = distances[edge_servers.list[e].base_station_id][base_stations[b].id]

\* C10: preprocess_problem(k), 1 <= k <= N, completes and gives every base
\* station floor(N/k) distinct indices, none left out being strictly
\* nearer than one taken.
C10_Neighbourhoods ==
    (last.op = "preprocess_problem" /\ 1 <= last.k /\ last.k <= N) =>
        /\ last.outcome = "ok"
        /\ Len(assign) = N
        /\ \A i \in 1..Len(assign) :
            /\ Len(assign[i]) = N \div last.k
            /\ \A x, y \in 1..Len(assign[i]) : x # y => assign[i][x] # assign[i][y]
            /\ \A x \in 1..Len(assign[i]) : \A out \in 0..(N - 1) :
                (\A y \in 1..Len(assign[i]) : assign[i][y] # out)
                    => distances[i - 1][out] >= distances[i - 1][assign[i][x]]

====
